---- MODULE Spec2Model ----
(***************************************************************************)
(* Model of calculator.py: the safe arithmetic evaluator (ast.parse, the   *)
(* _Evaluator node visitor, eval_expr) and the interactive loop _repl.     *)
(*                                                                         *)
(* Numbers.  A Python value is a record [kind, v]:                         *)
(*   kind "int"     v is the integer                                       *)
(*   kind "bool"    v is 0 (False) or 1 (True); bool is a subclass of int  *)
(*   kind "float"   v is the value counted in units of 1/Scale, so only    *)
(*                  binary fractions that a double holds exactly are       *)
(*                  values of the model; an operation whose exact result   *)
(*                  is such a fraction gives it (IEEE 754 rounds           *)
(*                  correctly), any other result is outside the model's    *)
(*                  range                                                  *)
(*   kind "complex" opaque: what float.__pow__ gives for a negative base   *)
(*                  and a fractional exponent                              *)
(*   kind "str"     a string constant (never a result)                     *)
(* The sign of a floating zero is not modelled.                            *)
(***************************************************************************)
EXTENDS Integers, Sequences, FiniteSets, TLC

VARIABLES
  tokens,      \* the expression handed to eval_expr, as its tokens
  expr,        \* the syntax tree ast.parse built for it
  outcome,     \* what eval_expr gave: a value returned or an exception raised
  modOutcome,  \* SpecDivMod: what eval_expr gave for a % b, outcome being a // b
  pc,          \* _repl: "prompt" while the loop runs, "done" once it is left
  input,       \* _repl: the last event at the prompt (a line, EOF, an interrupt)
  line,        \* _repl: the local variable line
  out,         \* _repl: the lines printed so far
  evals,       \* _repl: the calls of eval_expr so far
  reads        \* _repl: the calls of input() so far

vars == <<tokens, expr, outcome, modOutcome, pc, input, line, out, evals, reads>>

\* ------------------------------------------------------------------ bounds

\* Results of larger magnitude are outside the model's range.
MaxAbs == 600
\* Binary digits after the point of a modelled float.
FracBits == 2
\* Nodes of a syntax tree built by SpecVisit.
MaxNodes == 5
\* Nodes of a syntax tree built by SpecVisitDeep.
MaxNodesDeep == 6
\* Tokens of an expression typed in SpecParse.
MaxTokens == 7
\* Operands of SpecDivMod are drawn from -MaxOperand .. MaxOperand.
MaxOperand == 7
\* Input events read by the interactive loop in SpecRepl.
MaxInputs == 3

Scale == 2 ^ FracBits

Abs(n) == IF n < 0 THEN -n ELSE n

\* F(x), with x evaluated once: a local variable holding the value x.
With(x, F(_)) == CHOOSE y \in {F(v) : v \in {x}} : TRUE

\* ------------------------------------------------------------------ values

IntV(n) == [kind |-> "int", v |-> n]
BoolV(b) == [kind |-> "bool", v |-> b]
FloatV(s) == [kind |-> "float", v |-> s]
ComplexV == [kind |-> "complex", v |-> 0]
StrV == [kind |-> "str", v |-> 0]
NoVal == [kind |-> "none", v |-> 0]

\* What a call gives: a value returned, an exception raised (exc, and by: the
\* function that raised it), or a result outside the model's range. ops counts
\* the operator functions applied so far.
Ret(val) == [tag |-> "return", val |-> val, exc |-> "", by |-> "", ops |-> 0]
Raise(exc, by) == [tag |-> "raise", val |-> NoVal, exc |-> exc, by |-> by, ops |-> 0]
OutOfRange == [tag |-> "range", val |-> NoVal, exc |-> "", by |-> "", ops |-> 0]
NotEvaluated == [tag |-> "none", val |-> NoVal, exc |-> "", by |-> "", ops |-> 0]

RetInt(n) == IF Abs(n) > MaxAbs THEN OutOfRange ELSE Ret(IntV(n))
RetFloat(s) == IF Abs(s) > MaxAbs * Scale THEN OutOfRange ELSE Ret(FloatV(s))

IsIntegral(x) == x.kind \in {"int", "bool"}
IsComplex(x) == x.kind = "complex"
\* float(x), in units of 1/Scale
AsFloat(x) == IF x.kind = "float" THEN x.v ELSE x.v * Scale

\* The exact quotient n / d when it is an integer.
Divides(d, n) == d # 0 /\ (Abs(n) % Abs(d)) = 0
Sign(n) == IF n < 0 THEN -1 ELSE IF n > 0 THEN 1 ELSE 0
TruncDiv(n, d) == Sign(n) * Sign(d) * (Abs(n) \div Abs(d))

\* ------------------------------------------------- the operator functions

\* operator.add
op_add(a, b) ==
  IF IsComplex(a) \/ IsComplex(b) THEN Ret(ComplexV)
  ELSE IF IsIntegral(a) /\ IsIntegral(b) THEN RetInt(a.v + b.v)
  ELSE RetFloat(AsFloat(a) + AsFloat(b))

\* operator.sub
op_sub(a, b) ==
  IF IsComplex(a) \/ IsComplex(b) THEN Ret(ComplexV)
  ELSE IF IsIntegral(a) /\ IsIntegral(b) THEN RetInt(a.v - b.v)
  ELSE RetFloat(AsFloat(a) - AsFloat(b))

\* operator.mul
op_mul(a, b) ==
  IF IsComplex(a) \/ IsComplex(b) THEN Ret(ComplexV)
  ELSE IF IsIntegral(a) /\ IsIntegral(b) THEN RetInt(a.v * b.v)
  ELSE LET p == AsFloat(a) * AsFloat(b) IN
       IF Divides(Scale, p) THEN RetFloat(TruncDiv(p, Scale)) ELSE OutOfRange

\* operator.truediv: the quotient is a float whatever the operands
op_truediv(a, b) ==
  IF IsComplex(b) THEN OutOfRange
  ELSE IF b.v = 0 THEN Raise("ZeroDivisionError", "truediv")
  ELSE IF IsComplex(a) THEN Ret(ComplexV)
  ELSE LET n == AsFloat(a) * Scale
           d == AsFloat(b) IN
       IF Divides(d, n) THEN RetFloat(TruncDiv(n, d)) ELSE OutOfRange

\* Mutant: the quotient of C, cut toward zero.
IntFloorDivTruncating(a, b) == TruncDiv(a, b)

\* Floor division of integers as CPython's divmod does it: the quotient cut
\* toward zero, then lowered by one when the remainder is not zero and its
\* sign differs from the divisor's.
IntFloorDiv(a, b) ==
  LET q == TruncDiv(a, b)
      r == a - b * q IN
  IF r # 0 /\ ((r < 0) # (b < 0)) THEN q - 1 ELSE q

\* The remainder of the same division, moved to the divisor's sign.
IntMod(a, b) ==
  LET q == TruncDiv(a, b)
      r == a - b * q IN
  IF r # 0 /\ ((r < 0) # (b < 0)) THEN r + b ELSE r

\* operator.floordiv
op_floordiv(a, b) ==
  IF IsComplex(a) \/ IsComplex(b) THEN Raise("TypeError", "floordiv")
  ELSE IF b.v = 0 THEN Raise("ZeroDivisionError", "floordiv")
  ELSE IF IsIntegral(a) /\ IsIntegral(b) THEN RetInt(IntFloorDiv(a.v, b.v))
  ELSE RetFloat(IntFloorDiv(AsFloat(a), AsFloat(b)) * Scale)

\* operator.mod
op_mod(a, b) ==
  IF IsComplex(a) \/ IsComplex(b) THEN Raise("TypeError", "mod")
  ELSE IF b.v = 0 THEN Raise("ZeroDivisionError", "mod")
  ELSE IF IsIntegral(a) /\ IsIntegral(b) THEN RetInt(IntMod(a.v, b.v))
  ELSE RetFloat(IntMod(AsFloat(a), AsFloat(b)))

\* acc * b^e for b >= 0 and e >= 0, or cap + 1 as soon as the magnitude passes
\* cap.
RECURSIVE PowAcc(_, _, _, _)
PowAcc(b, e, acc, cap) ==
  IF e = 0 THEN acc
  ELSE IF b = 0 THEN 0
  ELSE IF b = 1 THEN acc
  ELSE IF acc * b > cap THEN cap + 1
  ELSE PowAcc(b, e - 1, acc * b, cap)

\* |b| ^ e, or cap + 1
MagPow(b, e, cap) == PowAcc(Abs(b), e, 1, cap)
PowSign(b, e) == IF b < 0 /\ e % 2 = 1 THEN -1 ELSE 1

\* float_pow on x ** y, both in units of 1/Scale
FloatPow(x, y) ==
  IF y = 0 THEN RetFloat(Scale)
  ELSE IF x = 0 THEN
    (IF y < 0 THEN Raise("ZeroDivisionError", "pow") ELSE RetFloat(0))
  ELSE IF ~Divides(Scale, y) THEN
    \* a fractional exponent
    IF x < 0 THEN Ret(ComplexV)
    ELSE IF x = Scale THEN RetFloat(Scale)
    ELSE IF 2 * y = Scale /\ \E r \in 0 .. (MaxAbs * Scale) : r * r = x * Scale
      THEN RetFloat(CHOOSE r \in 0 .. (MaxAbs * Scale) : r * r = x * Scale)
    ELSE OutOfRange
  ELSE
    \* a whole exponent k: (x/Scale)^k
    LET k == TruncDiv(y, Scale)
        cap == MaxAbs * Scale * Scale
        num == MagPow(x, Abs(k), cap)
        den == MagPow(Scale, Abs(k), cap) IN
    IF num > cap \/ den > cap THEN OutOfRange
    ELSE IF k > 0 THEN
      (IF Divides(den, num * Scale)
         THEN RetFloat(PowSign(x, k) * TruncDiv(num * Scale, den)) ELSE OutOfRange)
    ELSE
      (IF Divides(num, den * Scale)
         THEN RetFloat(PowSign(x, k) * TruncDiv(den * Scale, num)) ELSE OutOfRange)

\* operator.pow
op_pow(a, b) ==
  IF IsComplex(a) \/ IsComplex(b) THEN OutOfRange
  ELSE IF IsIntegral(a) /\ IsIntegral(b) /\ b.v >= 0 THEN
    LET m == MagPow(a.v, b.v, MaxAbs) IN
    IF m > MaxAbs THEN OutOfRange ELSE RetInt(PowSign(a.v, b.v) * m)
  ELSE FloatPow(AsFloat(a), AsFloat(b))

\* operator.pos
op_pos(a) ==
  IF IsComplex(a) THEN Ret(ComplexV)
  ELSE IF IsIntegral(a) THEN RetInt(a.v)
  ELSE RetFloat(a.v)

\* operator.neg
op_neg(a) ==
  IF IsComplex(a) THEN Ret(ComplexV)
  ELSE IF IsIntegral(a) THEN RetInt(-a.v)
  ELSE RetFloat(-a.v)

\* -------------------------------------------------------- the syntax tree

\* Nodes of the tree ast.parse returns. kind is the node class; a BinOp or
\* UnaryOp carries the class of its operator in op.
Constant(value) == [kind |-> "Constant", value |-> value]
BinOp(op, left, right) == [kind |-> "BinOp", op |-> op, left |-> left, right |-> right]
UnaryOp(op, operand) == [kind |-> "UnaryOp", op |-> op, operand |-> operand]
Name == [kind |-> "Name"]
Expression(body) == [kind |-> "Expression", body |-> body]
NoExpr == [kind |-> "none"]

\* _ALLOWED_BIN_OPS: operator class -> function
_ALLOWED_BIN_OPS ==
  [Add |-> "add", Sub |-> "sub", Mult |-> "mul", Div |-> "truediv",
   FloorDiv |-> "floordiv", Mod |-> "mod", Pow |-> "pow"]

\* _ALLOWED_UNARY_OPS: operator class -> function
_ALLOWED_UNARY_OPS == [UAdd |-> "pos", USub |-> "neg"]

\* _ALLOWED_BIN_OPS[op_type](left, right)
CallBin(fn, a, b) ==
  CASE fn = "add" -> op_add(a, b)
    [] fn = "sub" -> op_sub(a, b)
    [] fn = "mul" -> op_mul(a, b)
    [] fn = "truediv" -> op_truediv(a, b)
    [] fn = "floordiv" -> op_floordiv(a, b)
    [] fn = "mod" -> op_mod(a, b)
    [] fn = "pow" -> op_pow(a, b)

\* _ALLOWED_UNARY_OPS[op_type](operand)
CallUnary(fn, a) ==
  CASE fn = "pos" -> op_pos(a)
    [] fn = "neg" -> op_neg(a)

\* Mutant: a node of no handled class is passed over in silence and counts as 0.
generic_visit_silent(node) == Ret(IntV(0))

\* generic_visit: every node class without a visit_ method is refused
generic_visit(node) == Raise("ValueError", "generic_visit")

\* visit_Constant: isinstance(node.value, (int, float)) holds of an int, of a
\* float and of a bool (a subclass of int)
visit_Constant(node) ==
  IF node.value.kind \notin {"int", "float", "bool"}
    THEN Raise("ValueError", "visit_Constant")
    ELSE Ret(node.value)

RECURSIVE visit(_)
RECURSIVE visit_BinOp(_)
RECURSIVE visit_UnaryOp(_)

\* visit_Expression
visit_Expression(node) == visit(node.body)

\* NodeVisitor.visit: the method named after the node's class, or generic_visit
visit(node) ==
  CASE node.kind = "Expression" -> visit_Expression(node)
    [] node.kind = "Constant" -> visit_Constant(node)
    [] node.kind = "BinOp" -> visit_BinOp(node)
    [] node.kind = "UnaryOp" -> visit_UnaryOp(node)
    [] OTHER -> generic_visit(node)

\* visit_BinOp: the operator is checked first, then the left operand is
\* evaluated, then the right one, then the function is applied
visit_BinOp(node) ==
  IF node.op \notin DOMAIN _ALLOWED_BIN_OPS
    THEN Raise("ValueError", "visit_BinOp")
    ELSE With(visit(node.left), LAMBDA left :
         IF left.tag # "return" THEN left
         ELSE With(visit(node.right), LAMBDA right :
              IF right.tag # "return"
                THEN [right EXCEPT !.ops = left.ops + right.ops]
                ELSE [CallBin(_ALLOWED_BIN_OPS[node.op], left.val, right.val)
                        EXCEPT !.ops = left.ops + right.ops + 1]))

\* visit_UnaryOp
visit_UnaryOp(node) ==
  IF node.op \notin DOMAIN _ALLOWED_UNARY_OPS
    THEN Raise("ValueError", "visit_UnaryOp")
    ELSE With(visit(node.operand), LAMBDA operand :
         IF operand.tag # "return" THEN operand
         ELSE [CallUnary(_ALLOWED_UNARY_OPS[node.op], operand.val)
                 EXCEPT !.ops = operand.ops + 1])

\* eval_expr once ast.parse has returned the tree `body`
EvalTree(body) == visit(Expression(body))

\* ------------------------------------------------ SpecVisit: trees evaluated

\* The constants an expression is built from: 0, 2, 0.5, True and 's'.
Literals ==
  {Constant(IntV(0)), Constant(IntV(2)), Constant(FloatV(Scale \div 2)),
   Constant(BoolV(1)), Constant(StrV)}
Leaves == Literals \cup {Name}
\* The operator classes: the allowed ones and one more of each arity.
BinOpClasses == DOMAIN _ALLOWED_BIN_OPS \cup {"BitOr"}
UnaryOpClasses == DOMAIN _ALLOWED_UNARY_OPS \cup {"Invert"}

RECURSIVE Nodes(_)
Nodes(t) ==
  CASE t.kind = "BinOp" -> 1 + Nodes(t.left) + Nodes(t.right)
    [] t.kind = "UnaryOp" -> 1 + Nodes(t.operand)
    [] OTHER -> 1

NoInput == [ev |-> "none", text |-> <<>>]

\* Nothing has been evaluated yet, and no interactive loop runs.
InitEval ==
  /\ tokens = <<>>
  /\ expr = NoExpr
  /\ outcome = NotEvaluated
  /\ modOutcome = NotEvaluated
  /\ pc = "idle"
  /\ input = NoInput
  /\ line = <<>>
  /\ out = <<>>
  /\ evals = 0
  /\ reads = 0

\* eval_expr on an expression whose tree is t, of at most maxNodes nodes.
\* Expressions whose evaluation leaves the model's range are not evaluated.
Evaluate(t, maxNodes) ==
  /\ Nodes(t) <= maxNodes
  /\ \E res \in {EvalTree(t)} :
       /\ res.tag # "range"
       /\ outcome' = res
  /\ expr' = t
  /\ UNCHANGED <<tokens, modOutcome, pc, input, line, out, evals, reads>>

\* The first expression is a single leaf.
EvalLeaf(maxNodes) == \E l \in Leaves : expr = NoExpr /\ Evaluate(l, maxNodes)

\* The next expression applies a unary operator to the last one.
EvalUnary(maxNodes) ==
  \E op \in UnaryOpClasses : expr # NoExpr /\ Evaluate(UnaryOp(op, expr), maxNodes)

\* The next expression has the last one as the left operand of a binary operator.
EvalBinLeft(maxNodes) ==
  \E op \in BinOpClasses, l \in Leaves :
    expr # NoExpr /\ Evaluate(BinOp(op, expr, l), maxNodes)

\* The next expression has the last one as the right operand of a binary operator.
EvalBinRight(maxNodes) ==
  \E op \in BinOpClasses, l \in Leaves :
    expr # NoExpr /\ Evaluate(BinOp(op, l, expr), maxNodes)

NextVisit ==
  \/ EvalLeaf(MaxNodes)
  \/ EvalUnary(MaxNodes)
  \/ EvalBinLeft(MaxNodes)
  \/ EvalBinRight(MaxNodes)

SpecVisit == InitEval /\ [][NextVisit]_vars

NextVisitDeep ==
  \/ EvalLeaf(MaxNodesDeep)
  \/ EvalUnary(MaxNodesDeep)
  \/ EvalBinLeft(MaxNodesDeep)
  \/ EvalBinRight(MaxNodesDeep)

SpecVisitDeep == InitEval /\ [][NextVisitDeep]_vars

\* ------------------------------------------------------------ ast.parse

\* The tokens of an expression are strings. A NUMBER token and its value:
NumberTokens == ("2" :> IntV(2)) @@ ("3" :> IntV(3)) @@ ("4" :> IntV(4))
\* The operator tokens of each level of Python's expression grammar and the
\* class of the node each builds.
SumTokens == ("+" :> "Add") @@ ("-" :> "Sub")
TermTokens == ("*" :> "Mult") @@ ("/" :> "Div") @@ ("//" :> "FloorDiv") @@ ("%" :> "Mod")
UnaryTokens == ("+" :> "UAdd") @@ ("-" :> "USub") @@ ("~" :> "Invert")

Tok(toks, i) == IF i <= Len(toks) THEN toks[i] ELSE "ENDMARKER"
Parsed(node, pos) == [ok |-> TRUE, node |-> node, pos |-> pos]
NoParse == [ok |-> FALSE, node |-> NoExpr, pos |-> 0]

RECURSIVE ParseSum(_, _)
RECURSIVE ParseSumRest(_, _, _)
RECURSIVE ParseTerm(_, _)
RECURSIVE ParseTermRest(_, _, _)
RECURSIVE ParseFactor(_, _)
RECURSIVE ParsePower(_, _)
RECURSIVE ParseAtom(_, _)

\* atom: NUMBER | NAME | '(' sum ')'
ParseAtom(toks, i) ==
  LET t == Tok(toks, i) IN
  IF t \in DOMAIN NumberTokens THEN Parsed(Constant(NumberTokens[t]), i + 1)
  ELSE IF t = "x" THEN Parsed(Name, i + 1)
  ELSE IF t = "(" THEN
    With(ParseSum(toks, i + 1), LAMBDA r :
      IF r.ok /\ Tok(toks, r.pos) = ")" THEN Parsed(r.node, r.pos + 1) ELSE NoParse)
  ELSE NoParse

\* Mutant: power: atom ('**' atom)*, grouped from the left.
RECURSIVE ParsePowerLeftRest(_, _, _)
ParsePowerLeftRest(toks, left, i) ==
  IF Tok(toks, i) = "**" THEN
    With(ParseAtom(toks, i + 1), LAMBDA a :
      IF a.ok THEN ParsePowerLeftRest(toks, BinOp("Pow", left, a.node), a.pos)
      ELSE NoParse)
  ELSE Parsed(left, i)
ParsePowerLeft(toks, i) ==
  With(ParseAtom(toks, i), LAMBDA a :
    IF a.ok THEN ParsePowerLeftRest(toks, a.node, a.pos) ELSE NoParse)

\* power: atom ['**' factor]
ParsePower(toks, i) ==
  With(ParseAtom(toks, i), LAMBDA a :
    IF a.ok /\ Tok(toks, a.pos) = "**" THEN
      With(ParseFactor(toks, a.pos + 1), LAMBDA f :
        IF f.ok THEN Parsed(BinOp("Pow", a.node, f.node), f.pos) ELSE NoParse)
    ELSE a)

\* Mutant: unary: ('+'|'-'|'~') unary | atom, and power: unary ['**' power],
\* the grammar in which a sign binds tighter than '**'.
RECURSIVE ParseSignedAtom(_, _)
ParseSignedAtom(toks, i) ==
  IF Tok(toks, i) \in DOMAIN UnaryTokens THEN
    With(ParseSignedAtom(toks, i + 1), LAMBDA f :
      IF f.ok THEN Parsed(UnaryOp(UnaryTokens[Tok(toks, i)], f.node), f.pos)
      ELSE NoParse)
  ELSE ParseAtom(toks, i)
RECURSIVE ParseFactorUnaryFirst(_, _)
ParseFactorUnaryFirst(toks, i) ==
  With(ParseSignedAtom(toks, i), LAMBDA u :
    IF u.ok /\ Tok(toks, u.pos) = "**" THEN
      With(ParseFactorUnaryFirst(toks, u.pos + 1), LAMBDA f :
        IF f.ok THEN Parsed(BinOp("Pow", u.node, f.node), f.pos) ELSE NoParse)
    ELSE u)

\* factor: ('+'|'-'|'~') factor | power
ParseFactor(toks, i) ==
  IF Tok(toks, i) \in DOMAIN UnaryTokens THEN
    With(ParseFactor(toks, i + 1), LAMBDA f :
      IF f.ok THEN Parsed(UnaryOp(UnaryTokens[Tok(toks, i)], f.node), f.pos)
      ELSE NoParse)
  ELSE ParsePower(toks, i)

\* term: term ('*'|'/'|'//'|'%') factor | factor, the operators after the
\* first factor
ParseTermRest(toks, left, i) ==
  IF Tok(toks, i) \in DOMAIN TermTokens THEN
    With(ParseFactor(toks, i + 1), LAMBDA f :
      IF f.ok
        THEN ParseTermRest(toks, BinOp(TermTokens[Tok(toks, i)], left, f.node), f.pos)
        ELSE NoParse)
  ELSE Parsed(left, i)

ParseTerm(toks, i) ==
  With(ParseFactor(toks, i), LAMBDA f :
    IF f.ok THEN ParseTermRest(toks, f.node, f.pos) ELSE NoParse)

\* sum: sum ('+'|'-') term | term, the operators after the first term
ParseSumRest(toks, left, i) ==
  IF Tok(toks, i) \in DOMAIN SumTokens THEN
    With(ParseTerm(toks, i + 1), LAMBDA t :
      IF t.ok
        THEN ParseSumRest(toks, BinOp(SumTokens[Tok(toks, i)], left, t.node), t.pos)
        ELSE NoParse)
  ELSE Parsed(left, i)

ParseSum(toks, i) ==
  With(ParseTerm(toks, i), LAMBDA t :
    IF t.ok THEN ParseSumRest(toks, t.node, t.pos) ELSE NoParse)

\* ast.parse(expr, mode="eval"): the whole input is one expression, or a
\* SyntaxError
parse(toks) ==
  With(ParseSum(toks, 1), LAMBDA r :
    IF r.ok /\ r.pos = Len(toks) + 1 THEN r ELSE NoParse)

\* eval_expr
eval_expr(toks) ==
  With(parse(toks), LAMBDA parsed :
    IF parsed.ok THEN visit(Expression(parsed.node))
    ELSE Raise("SyntaxError", "parse"))

\* ------------------------------------------- SpecParse: expressions typed

\* eval_expr on the expression toks. expr keeps the tree ast.parse built.
\* Expressions whose evaluation leaves the model's range are not evaluated.
EvaluateText(toks) ==
  /\ Len(toks) <= MaxTokens
  /\ \E res \in {eval_expr(toks)} :
       /\ res.tag # "range"
       /\ outcome' = res
  /\ expr' = parse(toks).node
  /\ tokens' = toks
  /\ UNCHANGED <<modOutcome, pc, input, line, out, evals, reads>>

BinaryTokens == DOMAIN SumTokens \cup DOMAIN TermTokens \cup {"**"}
Operands == DOMAIN NumberTokens \cup {"x"}
\* The last expression was typed and is well formed: the next one extends it.
WellFormed == tokens # <<>> /\ outcome.exc # "SyntaxError"

\* The first expression is a number or a name.
TypeOperand == \E n \in Operands : tokens = <<>> /\ EvaluateText(<<n>>)

\* The next expression is the last one followed by an operator and an operand.
AppendBinary ==
  \E op \in BinaryTokens, n \in Operands :
    WellFormed /\ EvaluateText(tokens \o <<op, n>>)

\* The next expression is the last one followed by an operator and a negated
\* number.
AppendBinaryNegated ==
  \E op \in BinaryTokens, n \in DOMAIN NumberTokens :
    WellFormed /\ EvaluateText(tokens \o <<op, "-", n>>)

\* The next expression is the last one with a sign in front.
PrefixUnary ==
  \E u \in DOMAIN UnaryTokens : WellFormed /\ EvaluateText(<<u>> \o tokens)

\* The next expression is the last one in parentheses.
Parenthesise == WellFormed /\ EvaluateText(<<"(">> \o tokens \o <<")">>)

\* The next expression is the last one without its last token.
DropLast ==
  Len(tokens) >= 2 /\ EvaluateText(SubSeq(tokens, 1, Len(tokens) - 1))

NextParse ==
  \/ TypeOperand
  \/ AppendBinary
  \/ AppendBinaryNegated
  \/ PrefixUnary
  \/ Parenthesise
  \/ DropLast

SpecParse == InitEval /\ [][NextParse]_vars

\* ------------------------------------ SpecDivMod: a // b and a % b compared

\* The tree of the integer n: a literal, negated when n < 0.
IntegerTree(n) ==
  IF n < 0 THEN UnaryOp("USub", Constant(IntV(-n))) ELSE Constant(IntV(n))

\* eval_expr on a // b and then on a % b.
DivMod ==
  \E a \in -MaxOperand .. MaxOperand, b \in -MaxOperand .. MaxOperand :
    /\ expr' = BinOp("FloorDiv", IntegerTree(a), IntegerTree(b))
    /\ outcome' = EvalTree(BinOp("FloorDiv", IntegerTree(a), IntegerTree(b)))
    /\ modOutcome' = EvalTree(BinOp("Mod", IntegerTree(a), IntegerTree(b)))
    /\ UNCHANGED <<tokens, pc, input, line, out, evals, reads>>

NextDivMod == DivMod

SpecDivMod == InitEval /\ [][NextDivMod]_vars

\* ------------------------------------------- SpecRepl: the interactive loop

\* A line is the sequence of its characters.
\* str.strip(): the line without the blanks at its ends
RECURSIVE lstrip(_)
lstrip(s) == IF s # <<>> /\ Head(s) = " " THEN lstrip(Tail(s)) ELSE s
RECURSIVE rstrip(_)
rstrip(s) ==
  IF s # <<>> /\ s[Len(s)] = " " THEN rstrip(SubSeq(s, 1, Len(s) - 1)) ELSE s
strip(s) == rstrip(lstrip(s))

LowerChar(c) ==
  CASE c = "Q" -> "q" [] c = "U" -> "u" [] c = "I" -> "i" [] c = "T" -> "t"
    [] c = "E" -> "e" [] c = "X" -> "x" [] OTHER -> c

\* Mutant: the line is compared as typed.
lower_as_typed(s) == s

\* str.lower()
lower(s) == [i \in 1 .. Len(s) |-> LowerChar(s[i])]

\* The tokenizer of ast.parse on a line of one-character tokens: blanks
\* between tokens are dropped.
Tokenize(s) == SelectSeq(s, LAMBDA c : c # " ")

Banner == [kind |-> "banner", res |-> NotEvaluated]
BlankLine == [kind |-> "blank", res |-> NotEvaluated]
\* print(result) and print(f"Error: {exc}")
Printed(res) ==
  [kind |-> IF res.tag = "return" THEN "result" ELSE "error", res |-> res]

\* The lines typed at the prompt.
InputLines ==
  {<<"q", "u", "i", "t">>, <<"Q", "U", "I", "T">>, <<"e", "x", "i", "t">>,
   <<" ", "E", "x", "i", "t", " ">>, <<"q", "u", " ", "i", "t">>,
   <<>>, <<" ", " ">>,
   <<"2", "+", "2">>, <<" ", "2", " ", "*", " ", "3">>, <<"2", "/", "x">>,
   <<"2", "+">>}

\* _repl has printed its banner and is about to prompt.
InitRepl ==
  /\ tokens = <<>>
  /\ expr = NoExpr
  /\ outcome = NotEvaluated
  /\ modOutcome = NotEvaluated
  /\ pc = "prompt"
  /\ input = NoInput
  /\ line = <<>>
  /\ out = <<Banner>>
  /\ evals = 0
  /\ reads = 0

\* One turn of the loop in which input() returns the line text.
ReadLine ==
  \E text \in InputLines :
    /\ pc = "prompt"
    /\ reads < MaxInputs
    /\ reads' = reads + 1
    /\ input' = [ev |-> "line", text |-> text]
    /\ line' = strip(text)
    /\ IF lower(strip(text)) \in {<<"q", "u", "i", "t">>, <<"e", "x", "i", "t">>}
         THEN /\ pc' = "done"
              /\ UNCHANGED <<tokens, expr, outcome, out, evals>>
         ELSE IF strip(text) = <<>>
           THEN UNCHANGED <<tokens, expr, outcome, pc, out, evals>>
           ELSE /\ tokens' = Tokenize(strip(text))
                /\ expr' = parse(Tokenize(strip(text))).node
                /\ \E result \in {eval_expr(Tokenize(strip(text)))} :
                     /\ outcome' = result
                     /\ out' = Append(out, Printed(result))
                /\ evals' = evals + 1
                /\ pc' = "prompt"
    /\ UNCHANGED modOutcome

\* input() raises EOFError: a blank line is printed and the loop is left.
ReadEOF ==
  /\ pc = "prompt"
  /\ reads < MaxInputs
  /\ reads' = reads + 1
  /\ input' = [ev |-> "eof", text |-> <<>>]
  /\ out' = Append(out, BlankLine)
  /\ pc' = "done"
  /\ UNCHANGED <<tokens, expr, outcome, modOutcome, line, evals>>

\* input() raises KeyboardInterrupt: the same.
ReadInterrupt ==
  /\ pc = "prompt"
  /\ reads < MaxInputs
  /\ reads' = reads + 1
  /\ input' = [ev |-> "interrupt", text |-> <<>>]
  /\ out' = Append(out, BlankLine)
  /\ pc' = "done"
  /\ UNCHANGED <<tokens, expr, outcome, modOutcome, line, evals>>

NextRepl == ReadLine \/ ReadEOF \/ ReadInterrupt

SpecRepl == InitRepl /\ [][NextRepl]_vars

\* ================================================================ claims

AllowedBinaryClasses == {"Add", "Sub", "Mult", "Div", "FloorDiv", "Mod", "Pow"}
AllowedUnaryClasses == {"UAdd", "USub"}
DivisionClasses == {"Div", "FloorDiv", "Mod"}
DivisionFunctions == {"truediv", "floordiv", "mod"}

\* Every node of t is a numeric literal, one of the seven binary operations
\* or one of the two unary operations.
RECURSIVE OnlyArithmetic(_)
OnlyArithmetic(t) ==
  CASE t.kind = "Constant" -> t.value.kind \in {"int", "float"}
    [] t.kind = "BinOp" ->
         t.op \in AllowedBinaryClasses /\ OnlyArithmetic(t.left) /\ OnlyArithmetic(t.right)
    [] t.kind = "UnaryOp" -> t.op \in AllowedUnaryClasses /\ OnlyArithmetic(t.operand)
    [] OTHER -> FALSE

\* t holds a construct the evaluator has no rule for: a name, a string
\* constant, an operator outside the nine.
RECURSIVE HasUnsupported(_)
HasUnsupported(t) ==
  CASE t.kind = "Constant" -> t.value.kind \notin {"int", "float", "bool"}
    [] t.kind = "BinOp" ->
         t.op \notin AllowedBinaryClasses \/ HasUnsupported(t.left) \/ HasUnsupported(t.right)
    [] t.kind = "UnaryOp" -> t.op \notin AllowedUnaryClasses \/ HasUnsupported(t.operand)
    [] OTHER -> TRUE

\* t applies one of / // % **.
RECURSIVE HasDivisionOrPower(_)
HasDivisionOrPower(t) ==
  CASE t.kind = "BinOp" ->
         t.op \in DivisionClasses \cup {"Pow"}
           \/ HasDivisionOrPower(t.left) \/ HasDivisionOrPower(t.right)
    [] t.kind = "UnaryOp" -> HasDivisionOrPower(t.operand)
    [] OTHER -> FALSE

IsZero(val) == val.kind \in {"int", "float"} /\ val.v = 0

\* The evaluation of t reaches a / // or % node both of whose operands were
\* evaluated, the right one to zero.
RECURSIVE HitsZeroDivisor(_)
HitsZeroDivisor(t) ==
  CASE t.kind = "BinOp" ->
         /\ t.op \in AllowedBinaryClasses
         /\ \/ HitsZeroDivisor(t.left)
            \/ /\ EvalTree(t.left).tag = "return"
               /\ \/ HitsZeroDivisor(t.right)
                  \/ /\ t.op \in DivisionClasses
                     /\ EvalTree(t.right).tag = "return"
                     /\ IsZero(EvalTree(t.right).val)
    [] t.kind = "UnaryOp" -> t.op \in AllowedUnaryClasses /\ HitsZeroDivisor(t.operand)
    [] OTHER -> FALSE

\* C1 (as claimed): an expression whose tree holds a node that is not a
\* numeric literal, an allowed binary operation or an allowed unary operation
\* never returns a value: eval_expr fails with a syntax or unsupported-construct
\* error.
C1_NonArithmeticNodeRejected ==
  (expr # NoExpr /\ ~OnlyArithmetic(expr)) =>
    (outcome.tag = "raise" /\ outcome.exc \in {"SyntaxError", "ValueError"})

\* C2 (as claimed): whenever the right operand of a / // or % node evaluates
\* to zero, whatever the left operand's value, eval_expr fails with the
\* division-by-zero error.
C2_ZeroDivisorRaisesDivisionByZero ==
  (expr # NoExpr /\ HitsZeroDivisor(expr)) =>
    (/\ outcome.tag = "raise"
     /\ outcome.exc = "ZeroDivisionError"
     /\ outcome.by \in DivisionFunctions)

\* C3 (as claimed): an expression of numeric literals and the nine operators
\* gives a value or one of four errors: syntax, unsupported construct,
\* division by zero (raised only by a zero right operand of / // %) and the
\* arithmetic-domain error of **; nothing else escapes.
C3_OnlyFourErrorKinds ==
  (expr # NoExpr /\ OnlyArithmetic(expr)) =>
    \/ outcome.tag = "return"
    \/ /\ outcome.tag = "raise"
       /\ \/ outcome.exc \in {"SyntaxError", "ValueError"}
          \/ outcome.exc = "ZeroDivisionError" /\ outcome.by \in DivisionFunctions
          \/ outcome.exc = "ArithmeticDomainError" /\ outcome.by = "pow"

\* The kind the claim gives the result of op on the operand values l and r.
ExpectedKind(op, l, r) ==
  IF op = "Div" THEN "float"
  ELSE IF op = "Pow" THEN
    (IF l.kind = "int" /\ r.kind = "int" /\ r.v >= 0 THEN "int" ELSE "float")
  ELSE IF l.kind = "int" /\ r.kind = "int" THEN "int" ELSE "float"

\* C7 (as claimed): the kind of the result of a successful binary operation
\* on integer and floating operands is fixed by the operator and the operand
\* kinds: / gives a float; ** gives an integer for an integer base and a
\* non-negative integer exponent, else a float; + - * // % give an integer
\* for two integers, else a float.
C7_ResultKindFixedByOperator ==
  (/\ expr.kind = "BinOp"
   /\ outcome.tag = "return"
   /\ EvalTree(expr.left).val.kind \in {"int", "float"}
   /\ EvalTree(expr.right).val.kind \in {"int", "float"}) =>
    outcome.val.kind =
      ExpectedKind(expr.op, EvalTree(expr.left).val, EvalTree(expr.right).val)

\* C8 (as claimed): every value eval_expr returns is an integer or a
\* floating-point number; no boolean and no other kind is accepted as a literal
\* or produced by an operator.
C8_OnlyIntegerOrFloatValues ==
  outcome.tag = "return" => outcome.val.kind \in {"int", "float"}

C4_UnaryAppliedBeforePower ==
  tokens = <<"-", "2", "**", "2">> => (outcome.tag = "return" /\ outcome.val = IntV(4))

\* C4 (amended): ** binds tighter than a sign on its left, so - a ** b is
\* -(a ** b) and -2 ** 2 is -4; a sign in the exponent is applied before the
\* power is taken, a ** - b being a ** (-b).
C4_PowerBindsTighterThanSignOnItsLeft ==
  /\ (/\ Len(tokens) = 4
      /\ tokens[1] \in {"+", "-", "~"}
      /\ tokens[2] \in DOMAIN NumberTokens
      /\ tokens[3] = "**"
      /\ tokens[4] \in DOMAIN NumberTokens) =>
       expr = UnaryOp(UnaryTokens[tokens[1]],
                      BinOp("Pow", Constant(NumberTokens[tokens[2]]),
                            Constant(NumberTokens[tokens[4]])))
  /\ (/\ Len(tokens) = 4
      /\ tokens[1] \in DOMAIN NumberTokens
      /\ tokens[2] = "**"
      /\ tokens[3] = "-"
      /\ tokens[4] \in DOMAIN NumberTokens) =>
       expr = BinOp("Pow", Constant(NumberTokens[tokens[1]]),
                    UnaryOp("USub", Constant(NumberTokens[tokens[4]])))
  /\ tokens = <<"-", "2", "**", "2">> =>
       (outcome.tag = "return" /\ outcome.val = IntV(-4))

\* C4 witness: -2 ** 2 has been evaluated to -4.
C4_Witness ==
  tokens = <<"-", "2", "**", "2">> /\ outcome.tag = "return" /\ outcome.val = IntV(-4)

\* The grouping the claim describes, computed without the parser: a chain is
\* split at its last operator of the lowest level present (+ - below * / // %
\* below **), or at its first operator when only ** is present.
OperatorLevel(tok) ==
  IF tok \in {"+", "-"} THEN 1 ELSE IF tok \in {"*", "/", "//", "%"} THEN 2 ELSE 3
OperatorClass(tok) ==
  CASE tok = "+" -> "Add" [] tok = "-" -> "Sub" [] tok = "*" -> "Mult"
    [] tok = "/" -> "Div" [] tok = "//" -> "FloorDiv" [] tok = "%" -> "Mod"
    [] tok = "**" -> "Pow"
OperandTree(tok) == IF tok = "x" THEN Name ELSE Constant(NumberTokens[tok])
IsChain(toks) ==
  /\ Len(toks) >= 3
  /\ Len(toks) % 2 = 1
  /\ \A i \in 1 .. Len(toks) :
       IF i % 2 = 1 THEN toks[i] \in Operands ELSE toks[i] \in BinaryTokens
RECURSIVE GroupedTree(_)
GroupedTree(toks) ==
  IF Len(toks) = 1 THEN OperandTree(toks[1])
  ELSE
    LET ops == {i \in 1 .. Len(toks) : i % 2 = 0}
        lowest == CHOOSE l \in 1 .. 3 :
                    /\ \E i \in ops : OperatorLevel(toks[i]) = l
                    /\ \A i \in ops : OperatorLevel(toks[i]) >= l
        at == {i \in ops : OperatorLevel(toks[i]) = lowest}
        split == IF lowest = 3
                   THEN CHOOSE i \in at : \A j \in at : i <= j
                   ELSE CHOOSE i \in at : \A j \in at : i >= j IN
    BinOp(OperatorClass(toks[split]),
          GroupedTree(SubSeq(toks, 1, split - 1)),
          GroupedTree(SubSeq(toks, split + 1, Len(toks))))

\* C5: the value of an unparenthesised chain of binary operators is the value
\* of the tree in which * / // % bind tighter than + -, ** binds tighter than
\* those, the six group left to right and ** right to left (2 + 3 * 4 = 14,
\* 2 ** 3 ** 2 = 512); parentheses override the grouping ((2 + 3) * 4 = 20).
C5_PrecedenceAndAssociativity ==
  /\ IsChain(tokens) =>
       (expr = GroupedTree(tokens) /\ outcome = EvalTree(GroupedTree(tokens)))
  /\ (/\ Len(tokens) >= 7
      /\ tokens[1] = "("
      /\ IsChain(SubSeq(tokens, 2, Len(tokens) - 3))
      /\ tokens[Len(tokens) - 2] = ")"
      /\ tokens[Len(tokens) - 1] \in BinaryTokens
      /\ tokens[Len(tokens)] \in Operands) =>
       expr = BinOp(OperatorClass(tokens[Len(tokens) - 1]),
                    GroupedTree(SubSeq(tokens, 2, Len(tokens) - 3)),
                    OperandTree(tokens[Len(tokens)]))
  /\ tokens = <<"2", "+", "3", "*", "4">> => outcome.val = IntV(14)
  /\ tokens = <<"(", "2", "+", "3", ")", "*", "4">> => outcome.val = IntV(20)
  /\ tokens = <<"2", "**", "3", "**", "2">> => outcome.val = IntV(512)

\* C5 witness: 2 ** 3 ** 2 has been evaluated to 512.
C5_Witness ==
  tokens = <<"2", "**", "3", "**", "2">> /\ outcome.tag = "return" /\ outcome.val = IntV(512)

\* The integer a tree of IntegerTree stands for.
OperandOf(t) == IF t.kind = "UnaryOp" THEN -t.operand.value.v ELSE t.value.v

\* C6: for integers a and b # 0, a // b is the quotient floored toward
\* negative infinity, a % b is zero or has the sign of b with |a % b| < |b|,
\* and b * (a // b) + (a % b) = a.
C6_FloorDivisionAndModulo ==
  (expr # NoExpr /\ OperandOf(expr.right) # 0) =>
    LET a == OperandOf(expr.left)
        b == OperandOf(expr.right)
        q == outcome.val.v
        r == modOutcome.val.v IN
    /\ outcome.tag = "return" /\ outcome.val.kind = "int"
    /\ modOutcome.tag = "return" /\ modOutcome.val.kind = "int"
    /\ IF b > 0 THEN q * b <= a /\ a < (q + 1) * b
                ELSE q * b >= a /\ a > (q + 1) * b
    /\ r = 0 \/ (r < 0) = (b < 0)
    /\ Abs(r) < Abs(b)
    /\ b * q + r = a

\* C6 witness: -7 // 2 = -4 and -7 % 2 = 1 have been evaluated.
C6_Witness ==
  /\ expr = BinOp("FloorDiv", IntegerTree(-7), IntegerTree(2))
  /\ outcome.val = IntV(-4)
  /\ modOutcome.val = IntV(1)

\* The lines of InputLines that are the words quit and exit, and the blank
\* ones.
QuitLines ==
  {<<"q", "u", "i", "t">>, <<"Q", "U", "I", "T">>, <<"e", "x", "i", "t">>,
   <<" ", "E", "x", "i", "t", " ">>}
BlankLines == {<<>>, <<" ", " ">>}

\* C10: in every turn of the loop, the loop is left exactly on quit or exit
\* (any letter case, blanks around them ignored), on end of input and on an
\* interrupt at the prompt, a blank line being printed in the last two cases
\* only; a blank line typed is not evaluated and prints nothing; every other
\* line is evaluated once and prints one line, and the loop goes on whether
\* the evaluation failed or not.
ReplTurn ==
  /\ pc = "prompt"
  /\ reads' = reads + 1
  /\ (pc' = "done") <=>
       (input'.ev \in {"eof", "interrupt"} \/ input'.text \in QuitLines)
  /\ input'.ev \in {"eof", "interrupt"} =>
       (out' = Append(out, BlankLine) /\ evals' = evals)
  /\ (input'.ev = "line" /\ input'.text \in QuitLines \cup BlankLines) =>
       (out' = out /\ evals' = evals)
  /\ (input'.ev = "line" /\ input'.text \notin QuitLines \cup BlankLines) =>
       (/\ evals' = evals + 1
        /\ Len(out') = Len(out) + 1
        /\ SubSeq(out', 1, Len(out)) = out
        /\ out'[Len(out')].kind \in {"result", "error"}
        /\ pc' = "prompt")
C10_ReplLoop == [][ReplTurn]_vars

\* C10 witness: an evaluation has failed, its error is printed, and the loop
\* is at the prompt again.
C10_Witness ==
  /\ pc = "prompt"
  /\ evals >= 1
  /\ out[Len(out)].kind = "error"

====
